---- MODULE Spec2Model ----
(***************************************************************************)
(* A model of the PTY bridge, src/src/server/scripts/pty-bridge.py.        *)
(*                                                                         *)
(* main() is one sequential thread of control; pc is its position.  The    *)
(* environment (the caller feeding the bridge's standard input, the child  *)
(* process on the slave side of the terminal, the operating system's       *)
(* failures) interleaves with it.  Each bridge action is one statement of  *)
(* main() together with everything that statement calls.                   *)
(*                                                                         *)
(* Command tokens are sequences of one-character strings, so that the      *)
(* code's substring test ("bash" in cmd[0]) is computed character by       *)
(* character.  Bytes are small naturals: the k-th byte the caller supplies *)
(* is k, so a lost, duplicated or reordered byte changes the stream.       *)
(* The code reads at most 4096 bytes at a time; the model scales the chunk *)
(* to ChunkSize bytes and the input to MaxInput > ChunkSize bytes.         *)
(*                                                                         *)
(* Operating-system semantics the source relies on and the model assumes:  *)
(* select reports exactly the descriptors that are readable when it        *)
(* returns (after at most the timeout); a read returns between 1 and the   *)
(* requested number of the pending bytes; a write to a blocking descriptor *)
(* writes all of its buffer or raises OSError, and does not block for     *)
(* ever; Popen.terminate does not raise on a bound handle and sends no     *)
(* signal to a child already reaped; Popen.wait returns once the child has *)
(* exited, and not before.                                                 *)
(***************************************************************************)
EXTENDS Naturals, Sequences, FiniteSets

VARIABLES
    pc,            \* position of main()
    argv,          \* sys.argv[1:], a sequence of tokens
    shellEnv,      \* os.environ SHELL: <<>> when unset, <<token>> when set
    cmd,           \* the local cmd
    masterFd,      \* "none" | "open" | "closed": the bridge's master descriptor
    slaveFd,       \* "none" | "open" | "closed": the bridge's copy of the slave
    pBound,        \* whether the local p is bound (Popen returned)
    child,         \* "none" | "running" | "zombie" | "reaped"
    termObeys,     \* whether the child exits on SIGTERM
    slaveHeld,     \* whether some process still holds the slave side open
    r,             \* the ready list select returned
    inSupplied,    \* every byte the caller has put on the bridge's stdin
    stdinClosed,   \* whether the caller has closed the bridge's stdin
    inRead,        \* number of bytes the bridge has read from stdin
    masterWritten, \* every byte the bridge has written to the master
    childRead,     \* number of bytes the child has read from the slave
    ptyOut,        \* every byte the master has produced (child output)
    outRead,       \* number of bytes the bridge has read from the master
    stdoutWritten, \* every byte the bridge has written to its stdout
    stderrDiag,    \* whether the bridge wrote a diagnostic to stderr
    termCalls,     \* number of p.terminate() calls made
    waitCalls,     \* number of p.wait() calls made
    sigSent,       \* number of SIGTERMs actually sent to the child
    eofRead,       \* whether a zero-length read on stdin has happened
    exitPath,      \* how the proxy loop (or the startup) ended
    exitStatus,    \* <<>> while running, <<status>> once the process exited
    reads,         \* reads issued on each source since the last select
    sPc,           \* solver.py: position of run_persistent()
    sLines,        \* solver.py: the lines on its stdin
    sPos,          \* solver.py: number of lines taken from stdin
    sOut           \* solver.py: the lines printed to its stdout

vars == << pc, argv, shellEnv, cmd, masterFd, slaveFd, pBound, child,
           termObeys, slaveHeld, r, inSupplied, stdinClosed, inRead,
           masterWritten, childRead, ptyOut, outRead, stdoutWritten,
           stderrDiag, termCalls, waitCalls, sigSent, eofRead, exitPath,
           exitStatus, reads, sPc, sLines, sPos, sOut >>

\* The launch-policy state and the rest, for UNCHANGED clauses.
launchVars == << argv, shellEnv, cmd >>
fdVars     == << masterFd, slaveFd >>
childVars  == << pBound, child, termObeys, slaveHeld >>
inVars     == << inSupplied, stdinClosed >>
toPtyVars  == << inRead, masterWritten >>
fromPtyVars == << outRead, stdoutWritten >>
ptyVars    == << childRead, ptyOut >>
cleanVars  == << termCalls, waitCalls, sigSent >>
solverVars == << sPc, sLines, sPos, sOut >>
bridgeVars == << pc, launchVars, fdVars, childVars, r, inVars, toPtyVars,
                ptyVars, fromPtyVars, stderrDiag, cleanVars, eofRead,
                exitPath, exitStatus, reads >>

-----------------------------------------------------------------------------
(* Bounds of the model. *)

\* The caller supplies at most MaxInput bytes.
MaxInput == 3

\* The read size of os.read (4096 in the code), scaled.
ChunkSize == 2

\* solver.py is given at most MaxLines lines of input.
MaxLines == 3

-----------------------------------------------------------------------------
(* Tokens. *)

TokBash     == << "b", "a", "s", "h" >>
TokZsh      == << "z", "s", "h" >>
TokI        == << "-", "i" >>
TokLs       == << "l", "s" >>
TokLa       == << "-", "l", "a" >>
TokBinSh    == << "/", "b", "i", "n", "/", "s", "h" >>
TokBinBash  == << "/", "b", "i", "n", "/", "b", "a", "s", "h" >>
TokBinZsh   == << "/", "b", "i", "n", "/", "z", "s", "h" >>
TokZshDirLs == << "/", "z", "s", "h", "/", "l", "s" >>
TokBashtop  == << "b", "a", "s", "h", "t", "o", "p" >>
TokEmpty    == << >>

\* The tokens command lines are drawn from.
Tokens == { TokBash, TokBinZsh, TokI, TokLs, TokLa, TokBinSh, TokZshDirLs,
            TokBashtop, TokEmpty }

\* Command lines of at most two tokens.
ArgvSet == { << >> } \cup { << a >> : a \in Tokens }
              \cup { << a, b >> : a \in Tokens, b \in Tokens }

\* Values of the SHELL environment variable: unset, or set to a token.
EnvSet == { << >>, << TokBinSh >>, << TokBinBash >>, << TokZsh >>,
            << TokEmpty >>, << TokLs >> }

\* Python's  sub in s  on strings: sub occurs in s as a contiguous run.
Contains(sub, s) ==
    \E i \in 1..(Len(s) + 1) :
        /\ i + Len(sub) - 1 <= Len(s)
        /\ SubSeq(s, i, i + Len(sub) - 1) = sub

\* Python's  x in list.
InList(x, list) == \E i \in 1..Len(list) : list[i] = x

-----------------------------------------------------------------------------
(* The launch policy, lines 23-30. *)

\* A fallback that is itself an interactive shell.
DefaultCmdBash(args, env) ==
    IF args = << >>
    THEN << IF env = << >> THEN TokBinBash ELSE env[1] >>
    ELSE args

\* cmd = sys.argv[1:]; if not cmd: cmd = [os.environ.get("SHELL", "/bin/sh")]
DefaultCmd(args, env) ==
    IF args = << >>
    THEN << IF env = << >> THEN TokBinSh ELSE env[1] >>
    ELSE args

\* The unguarded append: "-i" is added whether or not it is present.
AlwaysInteractive(c) ==
    IF Contains(TokBash, c[1]) \/ Contains(TokZsh, c[1])
    THEN Append(c, TokI)
    ELSE c

\* if "bash" in cmd[0] or "zsh" in cmd[0]:
\*     if "-i" not in cmd: cmd.append("-i")
WithInteractive(c) ==
    IF Contains(TokBash, c[1]) \/ Contains(TokZsh, c[1])
    THEN IF ~InList(TokI, c) THEN Append(c, TokI) ELSE c
    ELSE c

\* Lines 23-30 as one function of the command line and the environment.
LaunchPolicy(args, env) == WithInteractive(DefaultCmd(args, env))

-----------------------------------------------------------------------------
(* Initial states. *)

InitRest ==
    /\ pc = "openpty"
    /\ cmd = << >>
    /\ masterFd = "none"
    /\ slaveFd = "none"
    /\ pBound = FALSE
    /\ child = "none"
    /\ termObeys \in BOOLEAN
    /\ slaveHeld = FALSE
    /\ r = {}
    /\ inSupplied = << >>
    /\ stdinClosed = FALSE
    /\ inRead = 0
    /\ masterWritten = << >>
    /\ childRead = 0
    /\ ptyOut = << >>
    /\ outRead = 0
    /\ stdoutWritten = << >>
    /\ stderrDiag = FALSE
    /\ termCalls = 0
    /\ waitCalls = 0
    /\ sigSent = 0
    /\ eofRead = FALSE
    /\ exitPath = "none"
    /\ exitStatus = << >>
    /\ reads = [stdin |-> 0, master |-> 0]

\* solver.py is not running.
SolverOff ==
    /\ sPc = "off"
    /\ sLines = << >>
    /\ sPos = 0
    /\ sOut = << >>

\* The bridge started on a shell, as its caller starts it.
Init ==
    /\ argv = << TokBinZsh >>
    /\ shellEnv = << TokBinZsh >>
    /\ InitRest
    /\ SolverOff

\* The bridge started on any command line, under any environment.
PolicyInit ==
    /\ argv \in ArgvSet
    /\ shellEnv \in EnvSet
    /\ InitRest
    /\ SolverOff

-----------------------------------------------------------------------------
(* Startup, lines 19-40. *)

\* master, slave = pty.openpty()
OpenPtyOk ==
    /\ pc = "openpty"
    /\ masterFd' = "open"
    /\ slaveFd' = "open"
    /\ pc' = "argv"
    /\ UNCHANGED << solverVars, reads, launchVars, childVars, r, inVars, toPtyVars, ptyVars,
                    fromPtyVars, stderrDiag, cleanVars, eofRead, exitPath,
                    exitStatus >>

\* pty.openpty() raises OSError: control passes to the except clause.
OpenPtyFail ==
    /\ pc = "openpty"
    /\ pc' = "except"
    /\ exitPath' = "openpty_failed"
    /\ UNCHANGED << solverVars, reads, launchVars, fdVars, childVars, r, inVars, toPtyVars,
                    ptyVars, fromPtyVars, stderrDiag, cleanVars, eofRead,
                    exitStatus >>

\* cmd = sys.argv[1:], with the default shell when empty.
ResolveCmd ==
    /\ pc = "argv"
    /\ cmd' = DefaultCmd(argv, shellEnv)
    /\ pc' = "interactive"
    /\ UNCHANGED << solverVars, reads, argv, shellEnv, fdVars, childVars, r, inVars, toPtyVars,
                    ptyVars, fromPtyVars, stderrDiag, cleanVars, eofRead,
                    exitPath, exitStatus >>

\* Force interactive mode for bash/zsh.
ForceInteractive ==
    /\ pc = "interactive"
    /\ cmd' = WithInteractive(cmd)
    /\ pc' = "popen"
    /\ UNCHANGED << solverVars, reads, argv, shellEnv, fdVars, childVars, r, inVars, toPtyVars,
                    ptyVars, fromPtyVars, stderrDiag, cleanVars, eofRead,
                    exitPath, exitStatus >>

\* p = subprocess.Popen(cmd, stdin=slave, ...): the child runs on the slave.
PopenOk ==
    /\ pc = "popen"
    /\ pBound' = TRUE
    /\ child' = "running"
    /\ slaveHeld' = TRUE
    /\ pc' = "closeslave"
    /\ UNCHANGED << solverVars, reads, launchVars, fdVars, termObeys, r, inVars, toPtyVars,
                    ptyVars, fromPtyVars, stderrDiag, cleanVars, eofRead,
                    exitPath, exitStatus >>

\* Popen raises (executable not found, permission denied): p stays unbound.
PopenFail ==
    /\ pc = "popen"
    /\ pc' = "except"
    /\ exitPath' = "spawn_failed"
    /\ UNCHANGED << solverVars, reads, launchVars, fdVars, childVars, r, inVars, toPtyVars,
                    ptyVars, fromPtyVars, stderrDiag, cleanVars, eofRead,
                    exitStatus >>

\* The close of the slave forgotten.
CloseSlaveForgotten ==
    /\ pc = "closeslave"
    /\ pc' = "loop"
    /\ UNCHANGED << solverVars, reads, launchVars, fdVars, childVars, r,
                    inVars, toPtyVars, ptyVars, fromPtyVars, stderrDiag,
                    cleanVars, eofRead, exitPath, exitStatus >>

\* os.close(slave)
CloseSlave ==
    /\ pc = "closeslave"
    /\ slaveFd' = "closed"
    /\ pc' = "loop"
    /\ UNCHANGED << solverVars, reads, launchVars, masterFd, childVars, r, inVars, toPtyVars,
                    ptyVars, fromPtyVars, stderrDiag, cleanVars, eofRead,
                    exitPath, exitStatus >>

\* The startup steps that the launch policy is part of.
PolicyNext ==
    \/ OpenPtyOk
    \/ ResolveCmd
    \/ ForceInteractive

PolicySpec == PolicyInit /\ [][PolicyNext]_vars

-----------------------------------------------------------------------------
(* The proxy loop, lines 43-65. *)

Min(a, b) == IF a <= b THEN a ELSE b

\* What select.select([sys.stdin, master], [], [], 0.1) returns: the sources
\* readable now (pending bytes, or end of file); empty after the timeout.
ReadySet ==
    { f \in { "stdin" } : inRead < Len(inSupplied) \/ stdinClosed }
    \cup { f \in { "master" } : outRead < Len(ptyOut) \/ ~slaveHeld }

\* while p.poll() is None: the child is still running.
LoopAlive ==
    /\ pc = "loop"
    /\ child = "running"
    /\ pc' = "select"
    /\ UNCHANGED << solverVars, reads, launchVars, fdVars, childVars, r, inVars, toPtyVars,
                    ptyVars, fromPtyVars, stderrDiag, cleanVars, eofRead,
                    exitPath, exitStatus >>

\* A liveness check that does not reclaim the exit status (the child stays
\* a zombie for terminate to find).
LoopDeadNoReap ==
    /\ pc = "loop"
    /\ child = "zombie"
    /\ pc' = "terminate"
    /\ exitPath' = "child_dead"
    /\ UNCHANGED << solverVars, reads, launchVars, fdVars, childVars, r,
                    inVars, toPtyVars, ptyVars, fromPtyVars, stderrDiag,
                    cleanVars, eofRead, exitStatus >>

\* A loop that, on finding the child dead, drains the master before ending.
LoopDeadDrains ==
    /\ pc = "loop"
    /\ child = "zombie"
    /\ child' = "reaped"
    /\ r' = { "master" }
    /\ reads' = [stdin |-> 0, master |-> 0]
    /\ pc' = "master"
    /\ exitPath' = "child_dead"
    /\ UNCHANGED << solverVars, launchVars, fdVars, pBound, termObeys,
                    slaveHeld, inVars, toPtyVars, ptyVars, fromPtyVars,
                    stderrDiag, cleanVars, eofRead, exitStatus >>

\* A loop without the liveness check (while True): the exit of the child
\* goes unnoticed and the loop polls again.
LoopDeadIgnored ==
    /\ pc = "loop"
    /\ child = "zombie"
    /\ pc' = "select"
    /\ UNCHANGED << solverVars, reads, launchVars, fdVars, childVars, r, inVars, toPtyVars,
                    ptyVars, fromPtyVars, stderrDiag, cleanVars, eofRead,
                    exitPath, exitStatus >>

\* while p.poll() is None: the child has exited; poll reaps it and the loop
\* ends.
LoopDead ==
    /\ pc = "loop"
    /\ child = "zombie"
    /\ child' = "reaped"
    /\ pc' = "terminate"
    /\ exitPath' = "child_dead"
    /\ UNCHANGED << solverVars, reads, launchVars, fdVars, pBound, termObeys, slaveHeld, r,
                    inVars, toPtyVars, ptyVars, fromPtyVars, stderrDiag,
                    cleanVars, eofRead, exitStatus >>

\* A poll that watches only stdin.
SelectStdinOnly ==
    /\ pc = "select"
    /\ r' = ReadySet \cap { "stdin" }
    /\ pc' = "stdin"
    /\ reads' = [stdin |-> 0, master |-> 0]
    /\ UNCHANGED << solverVars, launchVars, fdVars, childVars, inVars, toPtyVars,
                    ptyVars, fromPtyVars, stderrDiag, cleanVars, eofRead,
                    exitPath, exitStatus >>

\* r, _w, _e = select.select(...)
Select ==
    /\ pc = "select"
    /\ r' = ReadySet
    /\ pc' = "stdin"
    /\ reads' = [stdin |-> 0, master |-> 0]
    /\ UNCHANGED << solverVars, launchVars, fdVars, childVars, inVars, toPtyVars,
                    ptyVars, fromPtyVars, stderrDiag, cleanVars, eofRead,
                    exitPath, exitStatus >>

\* A loop outside any try: the exception of select ends the process at once,
\* with a traceback and status 1, and no cleanup.
SelectRaisesUncaught ==
    /\ pc = "select"
    /\ pc' = "done"
    /\ exitPath' = "exception"
    /\ exitStatus' = << 1 >>
    /\ UNCHANGED << solverVars, reads, launchVars, fdVars, childVars, r,
                    inVars, toPtyVars, ptyVars, fromPtyVars, stderrDiag,
                    cleanVars, eofRead >>

\* select.select raises: no inner try covers it, the outer except does.
SelectRaises ==
    /\ pc = "select"
    /\ pc' = "except"
    /\ exitPath' = "exception"
    /\ UNCHANGED << solverVars, reads, launchVars, fdVars, childVars, r, inVars, toPtyVars,
                    ptyVars, fromPtyVars, stderrDiag, cleanVars, eofRead,
                    exitStatus >>

\* if sys.stdin in r: false.
StdinSkip ==
    /\ pc = "stdin"
    /\ "stdin" \notin r
    /\ pc' = "master"
    /\ UNCHANGED << solverVars, reads, launchVars, fdVars, childVars, r, inVars, toPtyVars,
                    ptyVars, fromPtyVars, stderrDiag, cleanVars, eofRead,
                    exitPath, exitStatus >>

\* A continue after the stdin direction: the master is left for the next
\* iteration.
StdinDataContinue ==
    /\ pc = "stdin"
    /\ "stdin" \in r
    /\ \E n \in 1..Min(ChunkSize, Len(inSupplied) - inRead) :
        /\ inRead' = inRead + n
        /\ masterWritten' =
               masterWritten \o SubSeq(inSupplied, inRead + 1, inRead + n)
    /\ reads' = [reads EXCEPT !.stdin = @ + 1]
    /\ pc' = "loop"
    /\ UNCHANGED << solverVars, launchVars, fdVars, childVars, r, inVars,
                    ptyVars, fromPtyVars, stderrDiag, cleanVars, eofRead,
                    exitPath, exitStatus >>

\* A short write that goes unnoticed: n bytes are read, one is written.
StdinDataShortWrite ==
    /\ pc = "stdin"
    /\ "stdin" \in r
    /\ \E n \in 1..Min(ChunkSize, Len(inSupplied) - inRead) :
        /\ inRead' = inRead + n
        /\ masterWritten' = Append(masterWritten, inSupplied[inRead + 1])
    /\ pc' = "master"
    /\ reads' = [reads EXCEPT !.stdin = @ + 1]
    /\ UNCHANGED << solverVars, launchVars, fdVars, childVars, r, inVars, ptyVars,
                    fromPtyVars, stderrDiag, cleanVars, eofRead, exitPath,
                    exitStatus >>

\* d = os.read(stdin, 4096); os.write(master, d): n bytes cross.
StdinData ==
    /\ pc = "stdin"
    /\ "stdin" \in r
    /\ \E n \in 1..Min(ChunkSize, Len(inSupplied) - inRead) :
        /\ inRead' = inRead + n
        /\ masterWritten' =
               masterWritten \o SubSeq(inSupplied, inRead + 1, inRead + n)
    /\ pc' = "master"
    /\ reads' = [reads EXCEPT !.stdin = @ + 1]
    /\ UNCHANGED << solverVars, launchVars, fdVars, childVars, r, inVars, ptyVars,
                    fromPtyVars, stderrDiag, cleanVars, eofRead, exitPath,
                    exitStatus >>

\* The break forgotten: after the zero-length read the iteration goes on to
\* the master.
StdinEOFFallsThrough ==
    /\ pc = "stdin"
    /\ "stdin" \in r
    /\ inRead = Len(inSupplied)
    /\ eofRead' = TRUE
    /\ reads' = [reads EXCEPT !.stdin = @ + 1]
    /\ pc' = "master"
    /\ UNCHANGED << solverVars, launchVars, fdVars, childVars, r, inVars,
                    toPtyVars, ptyVars, fromPtyVars, stderrDiag, cleanVars,
                    exitPath, exitStatus >>

\* A break that also cleans up on the spot: the finally clause then
\* terminates a second time.
StdinEOFCleansUp ==
    /\ pc = "stdin"
    /\ "stdin" \in r
    /\ inRead = Len(inSupplied)
    /\ eofRead' = TRUE
    /\ exitPath' = "stdin_eof"
    /\ termCalls' = termCalls + 1
    /\ pc' = "terminate"
    /\ reads' = [reads EXCEPT !.stdin = @ + 1]
    /\ UNCHANGED << solverVars, launchVars, fdVars, childVars, r, inVars, toPtyVars,
                    ptyVars, fromPtyVars, stderrDiag, waitCalls, sigSent,
                    exitStatus >>

\* d = os.read(stdin, 4096) is empty: break.
StdinEOF ==
    /\ pc = "stdin"
    /\ "stdin" \in r
    /\ inRead = Len(inSupplied)
    /\ eofRead' = TRUE
    /\ exitPath' = "stdin_eof"
    /\ pc' = "terminate"
    /\ reads' = [reads EXCEPT !.stdin = @ + 1]
    /\ UNCHANGED << solverVars, launchVars, fdVars, childVars, r, inVars, toPtyVars,
                    ptyVars, fromPtyVars, stderrDiag, cleanVars, exitStatus >>

\* OSError from the read (n = 0) or from the write of the n bytes read:
\* break.
StdinErr ==
    /\ pc = "stdin"
    /\ "stdin" \in r
    /\ \E n \in 0..Min(ChunkSize, Len(inSupplied) - inRead) :
        inRead' = inRead + n
    /\ exitPath' = "stdin_err"
    /\ pc' = "terminate"
    /\ reads' = [reads EXCEPT !.stdin = @ + 1]
    /\ UNCHANGED << solverVars, launchVars, fdVars, childVars, r, inVars, masterWritten,
                    ptyVars, fromPtyVars, stderrDiag, cleanVars, eofRead,
                    exitStatus >>

\* An unconditional read of the master: it is read although select did not
\* report it, whenever it has bytes by then.
MasterSkipReads ==
    /\ pc = "master"
    /\ "master" \notin r
    /\ IF outRead < Len(ptyOut)
       THEN /\ outRead' = outRead + 1
            /\ stdoutWritten' = Append(stdoutWritten, ptyOut[outRead + 1])
            /\ reads' = [reads EXCEPT !.master = @ + 1]
       ELSE UNCHANGED << fromPtyVars, reads >>
    /\ pc' = "loop"
    /\ UNCHANGED << solverVars, launchVars, fdVars, childVars, r, inVars,
                    toPtyVars, ptyVars, stderrDiag, cleanVars, eofRead,
                    exitPath, exitStatus >>

\* if master in r: false; back to the loop condition.
MasterSkip ==
    /\ pc = "master"
    /\ "master" \notin r
    /\ pc' = "loop"
    /\ UNCHANGED << solverVars, reads, launchVars, fdVars, childVars, r, inVars, toPtyVars,
                    ptyVars, fromPtyVars, stderrDiag, cleanVars, eofRead,
                    exitPath, exitStatus >>

\* d = os.read(master, 4096); os.write(stdout, d); flush: n bytes cross.
MasterData ==
    /\ pc = "master"
    /\ "master" \in r
    /\ \E n \in 1..Min(ChunkSize, Len(ptyOut) - outRead) :
        /\ outRead' = outRead + n
        /\ stdoutWritten' =
               stdoutWritten \o SubSeq(ptyOut, outRead + 1, outRead + n)
    /\ pc' = "loop"
    /\ reads' = [reads EXCEPT !.master = @ + 1]
    /\ UNCHANGED << solverVars, launchVars, fdVars, childVars, r, inVars, toPtyVars,
                    ptyVars, stderrDiag, cleanVars, eofRead, exitPath,
                    exitStatus >>

\* The slave side is closed and drained: os.read(master) returns nothing or
\* raises EIO; either way break.
MasterEOF ==
    /\ pc = "master"
    /\ "master" \in r
    /\ outRead = Len(ptyOut)
    /\ exitPath' = "master_eof"
    /\ pc' = "terminate"
    /\ reads' = [reads EXCEPT !.master = @ + 1]
    /\ UNCHANGED << solverVars, launchVars, fdVars, childVars, r, inVars, toPtyVars,
                    ptyVars, fromPtyVars, stderrDiag, cleanVars, eofRead,
                    exitStatus >>

\* OSError from the read (n = 0) or from the write or flush of the n bytes
\* read: break.
MasterErr ==
    /\ pc = "master"
    /\ "master" \in r
    /\ \E n \in 0..Min(ChunkSize, Len(ptyOut) - outRead) :
        outRead' = outRead + n
    /\ exitPath' = "master_err"
    /\ pc' = "terminate"
    /\ reads' = [reads EXCEPT !.master = @ + 1]
    /\ UNCHANGED << solverVars, launchVars, fdVars, childVars, r, inVars, toPtyVars,
                    ptyVars, stdoutWritten, stderrDiag, cleanVars, eofRead,
                    exitStatus >>

-----------------------------------------------------------------------------
(* The except and finally clauses, lines 67-74. *)

\* except Exception as exc: sys.stderr.write(...)
Except ==
    /\ pc = "except"
    /\ stderrDiag' = TRUE
    /\ pc' = "terminate"
    /\ UNCHANGED << solverVars, reads, launchVars, fdVars, childVars, r, inVars, toPtyVars,
                    ptyVars, fromPtyVars, cleanVars, eofRead, exitPath,
                    exitStatus >>

\* finally: p.terminate() with p unbound raises NameError, which the inner
\* except swallows; main returns and the interpreter exits with status 0.
TerminateUnbound ==
    /\ pc = "terminate"
    /\ ~pBound
    /\ pc' = "done"
    /\ exitStatus' = << 0 >>
    /\ UNCHANGED << solverVars, reads, launchVars, fdVars, childVars, r, inVars, toPtyVars,
                    ptyVars, fromPtyVars, stderrDiag, cleanVars, eofRead,
                    exitPath >>

\* finally: p.terminate().  Popen sends SIGTERM to a child whose exit status
\* it has not reclaimed, and nothing to one it has.  A running child exits
\* on the signal or ignores it.  For a child that has exited unnoticed (a
\* zombie), Popen either polls first, reaps it and sends nothing, or sends
\* the signal to the zombie, to no effect: both are behaviours of the
\* library, by its version.
Terminate ==
    /\ pc = "terminate"
    /\ pBound
    /\ termCalls' = termCalls + 1
    /\ \/ /\ child = "running"
          /\ sigSent' = sigSent + 1
          /\ child' = IF termObeys THEN "zombie" ELSE "running"
          /\ slaveHeld' = IF termObeys THEN FALSE ELSE slaveHeld
       \/ /\ child = "zombie"
          /\ \/ sigSent' = sigSent /\ child' = "reaped"
             \/ sigSent' = sigSent + 1 /\ child' = "zombie"
          /\ slaveHeld' = slaveHeld
       \/ /\ child = "reaped"
          /\ sigSent' = sigSent
          /\ child' = "reaped"
          /\ slaveHeld' = slaveHeld
    /\ pc' = "wait"
    /\ UNCHANGED << solverVars, reads, launchVars, fdVars, pBound, termObeys, r, inVars,
                    toPtyVars, ptyVars, fromPtyVars, stderrDiag, waitCalls,
                    eofRead, exitPath, exitStatus >>

\* p.wait() is called and blocks.
WaitCall ==
    /\ pc = "wait"
    /\ waitCalls' = waitCalls + 1
    /\ pc' = "waiting"
    /\ UNCHANGED << solverVars, reads, launchVars, fdVars, childVars, r, inVars, toPtyVars,
                    ptyVars, fromPtyVars, stderrDiag, termCalls, sigSent,
                    eofRead, exitPath, exitStatus >>

\* p.wait() returns once the child has exited; main returns and the
\* interpreter exits with status 0.
WaitReturn ==
    /\ pc = "waiting"
    /\ child # "running"
    /\ child' = "reaped"
    /\ pc' = "done"
    /\ exitStatus' = << 0 >>
    /\ UNCHANGED << solverVars, reads, launchVars, fdVars, pBound, termObeys, slaveHeld, r,
                    inVars, toPtyVars, ptyVars, fromPtyVars, stderrDiag,
                    cleanVars, eofRead, exitPath >>

-----------------------------------------------------------------------------
(* The environment: the caller on the bridge's stdin and the child. *)

\* The caller writes one more byte to the bridge's stdin.
Supply ==
    /\ ~stdinClosed
    /\ Len(inSupplied) < MaxInput
    /\ exitStatus = << >>
    /\ inSupplied' = Append(inSupplied, Len(inSupplied) + 1)
    /\ UNCHANGED << solverVars, reads, pc, launchVars, fdVars, childVars, r, stdinClosed,
                    toPtyVars, ptyVars, fromPtyVars, stderrDiag, cleanVars,
                    eofRead, exitPath, exitStatus >>

\* The caller closes the bridge's stdin.
CloseStdin ==
    /\ ~stdinClosed
    /\ exitStatus = << >>
    /\ stdinClosed' = TRUE
    /\ UNCHANGED << solverVars, reads, pc, launchVars, fdVars, childVars, r, inSupplied,
                    toPtyVars, ptyVars, fromPtyVars, stderrDiag, cleanVars,
                    eofRead, exitPath, exitStatus >>

\* The child (cat) reads one byte from the slave and writes it back.
ChildEcho ==
    /\ child = "running"
    /\ childRead < Len(masterWritten)
    /\ ptyOut' = Append(ptyOut, masterWritten[childRead + 1])
    /\ childRead' = childRead + 1
    /\ UNCHANGED << solverVars, reads, pc, launchVars, fdVars, childVars, r, inVars, toPtyVars,
                    fromPtyVars, stderrDiag, cleanVars, eofRead, exitPath,
                    exitStatus >>

\* The child exits on its own; a process it started may keep the slave open.
ChildExit ==
    /\ child = "running"
    /\ child' = "zombie"
    /\ slaveHeld' \in BOOLEAN
    /\ UNCHANGED << solverVars, reads, pc, launchVars, fdVars, pBound, termObeys, r, inVars,
                    toPtyVars, ptyVars, fromPtyVars, stderrDiag, cleanVars,
                    eofRead, exitPath, exitStatus >>

-----------------------------------------------------------------------------
(* Specifications. *)

\* One step of main().
Bridge ==
    \/ OpenPtyOk
    \/ OpenPtyFail
    \/ ResolveCmd
    \/ ForceInteractive
    \/ PopenOk
    \/ PopenFail
    \/ CloseSlave
    \/ LoopAlive
    \/ LoopDead
    \/ Select
    \/ SelectRaises
    \/ StdinSkip
    \/ StdinData
    \/ StdinEOF
    \/ StdinErr
    \/ MasterSkip
    \/ MasterData
    \/ MasterEOF
    \/ MasterErr
    \/ Except
    \/ TerminateUnbound
    \/ Terminate
    \/ WaitCall
    \/ WaitReturn

\* One step of the caller or of the child.
Environment ==
    \/ Supply
    \/ CloseStdin
    \/ ChildEcho
    \/ ChildExit

Next == Bridge \/ Environment

Spec == Init /\ [][Next]_vars

\* main() is a running process: it takes its next step whenever it has one.
FairSpec == Spec /\ WF_vars(Bridge)

\* The session of the echo round trip: the startup succeeds, the child is
\* cat and stays alive, the caller keeps stdin open, no call fails.
EchoBridge ==
    \/ OpenPtyOk
    \/ ResolveCmd
    \/ ForceInteractive
    \/ PopenOk
    \/ CloseSlave
    \/ LoopAlive
    \/ Select
    \/ StdinSkip
    \/ StdinData
    \/ MasterSkip
    \/ MasterData

EchoNext == EchoBridge \/ Supply \/ ChildEcho

\* main() and the child are running processes.
EchoSpec ==
    Init /\ [][EchoNext]_vars /\ WF_vars(EchoBridge) /\ WF_vars(ChildEcho)

-----------------------------------------------------------------------------
(* The companion utility, src/plugins/poorman-alpha/solver.py, in            *)
(* persistent mode: run_persistent(), lines 315-346.                         *)
(*                                                                           *)
(* A line of input is modelled by what the loop does with it:                *)
(*   "blank"      line.strip() is empty                                      *)
(*   "badjson"    json.loads raises JSONDecodeError                          *)
(*   "nonobject"  valid JSON that is no object (a number, a list, null):     *)
(*                it has no method get                                       *)
(*   "exit"       the object {"command": "exit"}                             *)
(*   "noexpr"     a request whose expression is missing or empty             *)
(*   "good"       a request whose expression evaluates                       *)
(*   "bad"        a request whose expression raises in process_request       *)
(* The request on line i of the input carries the id i.                      *)

LineKinds == { "blank", "badjson", "nonobject", "exit", "noexpr", "good",
               "bad" }

\* Inputs of at most MaxLines lines.
LineSeqs == UNION { [1..n -> LineKinds] : n \in 0..MaxLines }

\* print(json.dumps({'status': 'ready'}))
ReadyLine == [kind |-> "ready", id |-> 0, error |-> FALSE]

\* print(json.dumps(response)) with response['id'] = req_id
Response(i, err) == [kind |-> "response", id |-> i, error |-> err]

SolverInit ==
    /\ argv = << TokBinZsh >>
    /\ shellEnv = << TokBinZsh >>
    /\ InitRest
    /\ sPc = "start"
    /\ sLines \in LineSeqs
    /\ sPos = 0
    /\ sOut = << >>

\* The next line of  for line in sys.stdin  is of kind k.
NextLineIs(k) ==
    /\ sPc = "loop"
    /\ sPos < Len(sLines)
    /\ sLines[sPos + 1] = k

\* Signal readiness.
SolverReady ==
    /\ sPc = "start"
    /\ sOut' = << ReadyLine >>
    /\ sPc' = "loop"
    /\ UNCHANGED << bridgeVars, sLines, sPos >>

\* if not line: continue
SolverBlank ==
    /\ NextLineIs("blank")
    /\ sPos' = sPos + 1
    /\ UNCHANGED << bridgeVars, sPc, sLines, sOut >>

\* except json.JSONDecodeError: continue
SolverBadJson ==
    /\ NextLineIs("badjson")
    /\ sPos' = sPos + 1
    /\ UNCHANGED << bridgeVars, sPc, sLines, sOut >>

\* request.get('command') on a value that is no dict raises AttributeError,
\* which nothing catches: the process ends with a traceback.
SolverNonObject ==
    /\ NextLineIs("nonobject")
    /\ sPos' = sPos + 1
    /\ sPc' = "crashed"
    /\ UNCHANGED << bridgeVars, sLines, sOut >>

\* if request.get('command') == 'exit': break
SolverExit ==
    /\ NextLineIs("exit")
    /\ sPos' = sPos + 1
    /\ sPc' = "done"
    /\ UNCHANGED << bridgeVars, sLines, sOut >>

\* if not expression: print({'id': req_id, 'error': 'Empty expression'})
SolverEmptyExpr ==
    /\ NextLineIs("noexpr")
    /\ sOut' = Append(sOut, Response(sPos + 1, TRUE))
    /\ sPos' = sPos + 1
    /\ UNCHANGED << bridgeVars, sPc, sLines >>

\* response = process_request(...): the result, or {'error': str(e)} when
\* the evaluation raises; response['id'] = req_id; print(response)
SolverRequest ==
    /\ \E k \in { "good", "bad" } :
        /\ NextLineIs(k)
        /\ sOut' = Append(sOut, Response(sPos + 1, k = "bad"))
    /\ sPos' = sPos + 1
    /\ UNCHANGED << bridgeVars, sPc, sLines >>

\* sys.stdin is exhausted: the for loop ends.
SolverEOF ==
    /\ sPc = "loop"
    /\ sPos = Len(sLines)
    /\ sPc' = "done"
    /\ UNCHANGED << bridgeVars, sLines, sPos, sOut >>

SolverNext ==
    \/ SolverReady
    \/ SolverBlank
    \/ SolverBadJson
    \/ SolverNonObject
    \/ SolverExit
    \/ SolverEmptyExpr
    \/ SolverRequest
    \/ SolverEOF

SolverSpec == SolverInit /\ [][SolverNext]_vars

-----------------------------------------------------------------------------
(* Properties. *)

IsPrefix(a, b) == Len(a) <= Len(b) /\ SubSeq(b, 1, Len(a)) = a

\* The part of a path after its last "/".
LastSlash(tok) ==
    CHOOSE i \in 0..Len(tok) :
        /\ i > 0 => tok[i] = "/"
        /\ \A j \in (i + 1)..Len(tok) : tok[j] # "/"

Basename(tok) == SubSeq(tok, LastSlash(tok) + 1, Len(tok))

\* The allowlisted interactive shells.
ShellNames == { TokBash, TokZsh }

\* C1: for a non-empty command line, the finalized launch spec is the input
\* with "-i" appended exactly when the basename of the first token is bash
\* or zsh and "-i" is not among the tokens; otherwise it is the input.
C1_AppendIffShellBasename ==
    (pc = "popen" /\ argv # << >>) =>
        cmd = IF Basename(argv[1]) \in ShellNames /\ ~InList(TokI, argv)
              THEN Append(argv, TokI)
              ELSE argv

\* C2: once the bridge has read end of file on its stdin, it eventually
\* exits, whatever the child does.
C2_InputCloseExits == eofRead ~> (pc = "done")

\* C3: once the child has exited, the bridge eventually exits, with no
\* further input and whether or not a descriptor is ever ready.
C3_ChildExitTerminates == (child = "zombie") ~> (pc = "done")

\* C3 witness: the child exited, nothing was ever supplied or closed on
\* stdin, the slave stayed open so the master never became ready, and the
\* liveness check ended the loop; the bridge exited.
C3_Witness ==
    /\ pc = "done"
    /\ exitPath = "child_dead"
    /\ inSupplied = << >>
    /\ ~stdinClosed
    /\ slaveHeld
    /\ r = {}

\* C4: after a successful spawn, terminate and wait are each called at most
\* once, wait only after terminate, neither before the loop has ended, and
\* both have been called once when the bridge returns.
C4_CleanupOnce ==
    /\ termCalls <= 1
    /\ waitCalls <= termCalls
    /\ pc \notin { "terminate", "wait", "waiting", "done" } => termCalls = 0
    /\ (pc = "done" /\ pBound) => (termCalls = 1 /\ waitCalls = 1)

\* C4 witness: the bridge returned after the loop ended by an unexpected
\* exception, with the child spawned.
C4_Witness ==
    /\ pc = "done"
    /\ pBound
    /\ exitPath = "exception"
    /\ termCalls = 1
    /\ waitCalls = 1

\* C5: when the bridge returns, it has closed every descriptor of the
\* terminal pair it allocated.
C5_DescriptorsReleased ==
    pc = "done" => (masterFd # "open" /\ slaveFd # "open")

\* C6: after a failed allocation or spawn the bridge has written a
\* diagnostic to stderr, nothing to stdout, has not run the proxy loop, and
\* exits with a non-zero status.
C6_StartupFailureExit ==
    (pc = "done" /\ exitPath \in { "openpty_failed", "spawn_failed" }) =>
        /\ stderrDiag
        /\ stdoutWritten = << >>
        /\ inRead = 0 /\ outRead = 0
        /\ exitStatus # << 0 >>

\* C7: what the bridge wrote to the master is a prefix of what was supplied
\* on its stdin, what it wrote to its stdout is a prefix of what the master
\* produced, and no step moves more than one chunk in either direction.
C7_ByteTransparency ==
    /\ [](IsPrefix(masterWritten, inSupplied)
            /\ IsPrefix(stdoutWritten, ptyOut))
    /\ [][/\ inRead' <= inRead + ChunkSize
          /\ Len(masterWritten') <= Len(masterWritten) + ChunkSize
          /\ outRead' <= outRead + ChunkSize
          /\ Len(stdoutWritten') <= Len(stdoutWritten) + ChunkSize]_vars

\* C7 witness: an input longer than one chunk has crossed completely, to the
\* master and back to the bridge's stdout.
C7_Witness ==
    /\ Len(inSupplied) > ChunkSize
    /\ masterWritten = inSupplied
    /\ stdoutWritten = inSupplied

\* C8: with an echoing child that stays alive and stdin kept open, the first
\* k bytes supplied on stdin eventually are the first k bytes on stdout.
C8_EchoRoundTrip ==
    \A k \in 1..MaxInput :
        (Len(inSupplied) >= k) ~>
            (/\ Len(stdoutWritten) >= k
             /\ SubSeq(stdoutWritten, 1, k) = SubSeq(inSupplied, 1, k))

\* C8 witness: every byte of a full-length input is on stdout, in order.
C8_Witness ==
    /\ Len(inSupplied) = MaxInput
    /\ stdoutWritten = inSupplied
    /\ child = "running"
    /\ ~stdinClosed

\* C9: with no launch tokens the command is the single token of SHELL, or
\* /bin/sh when SHELL is unset; with SHELL unset the finalized spec is
\* exactly [/bin/sh]; the finalized spec is never empty.
C9_DefaultShell ==
    /\ (pc = "interactive" /\ argv = << >> /\ shellEnv # << >>)
           => cmd = << shellEnv[1] >>
    /\ (pc = "interactive" /\ argv = << >> /\ shellEnv = << >>)
           => cmd = << TokBinSh >>
    /\ (pc = "popen" /\ argv = << >> /\ shellEnv = << >>)
           => cmd = << TokBinSh >>
    /\ pc = "popen" => Len(cmd) > 0

\* C9 witness: no tokens, SHELL unset, the policy has run.
C9_Witness ==
    /\ pc = "popen"
    /\ argv = << >>
    /\ shellEnv = << >>
    /\ cmd = << TokBinSh >>

\* C10: applying the launch policy to the finalized spec gives the
\* finalized spec.
C10_PolicyIdempotent ==
    pc = "popen" => LaunchPolicy(cmd, shellEnv) = cmd

\* C10 witness: the policy appended "-i" to a bare shell command.
C10_Witness ==
    /\ pc = "popen"
    /\ argv = << TokBash >>
    /\ cmd = << TokBash, TokI >>

\* Positions of main() inside the proxy loop, and after it.
LoopPcs == { "loop", "select", "stdin", "master" }

Terminated == { "except", "terminate", "wait", "waiting", "done" }

BothReady == { "stdin", "master" }

\* The bridge's progress on its descriptors.
ioVars == << inRead, masterWritten, outRead, stdoutWritten >>

\* C13, as claimed: an iteration whose select reported both sources ready
\* has read both, whatever the first read returned.
C13_BothServicedAlways ==
    (pc \notin { "stdin", "master" } /\ r = BothReady) =>
        (reads.stdin >= 1 /\ reads.master >= 1)

\* C13, amended: an iteration whose select reported both sources ready has
\* read both, unless the read of stdin returned nothing or the stdin
\* direction raised OSError, which end the loop before the master is read.
C13_BothServicedUnlessBreak ==
    /\ (pc \notin { "stdin", "master" } /\ r = BothReady
            /\ exitPath \notin { "stdin_eof", "stdin_err" }) =>
           (reads.stdin >= 1 /\ reads.master >= 1)
    /\ (r = BothReady /\ exitPath \in { "stdin_eof", "stdin_err" }) =>
           (reads.stdin = 1 /\ reads.master = 0)

\* C13 witness: both were ready and both directions moved bytes in the one
\* iteration.
C13_Witness ==
    /\ pc = "loop"
    /\ r = BothReady
    /\ reads.stdin = 1
    /\ reads.master = 1
    /\ exitPath = "none"

\* C14: a zero-length read on stdin leaves the loop at once; after the loop
\* is left the bridge never returns to it and reads or writes no byte on any
\* descriptor.
C14_NoIOAfterTerminated ==
    /\ [](eofRead => pc \in Terminated)
    /\ [][(pc \in Terminated) =>
              (pc' \in Terminated /\ ioVars' = ioVars)]_vars

\* C14 witness: stdin hit end of file in an iteration in which the master
\* was ready with bytes pending; the bridge exited without delivering them.
C14_Witness ==
    /\ pc = "done"
    /\ eofRead
    /\ "master" \in r
    /\ outRead < Len(ptyOut)

MidSessionFaults == { "stdin_err", "master_err", "exception" }

\* C15: a failing read or write, or an exception of the poll, ends the
\* loop; terminate and wait are then called; the bridge returns normally
\* (status 0), having reported an exception of the poll on stderr.
C15_FailuresContained ==
    /\ [](exitPath \in MidSessionFaults =>
            /\ pc \in Terminated
            /\ (exitPath = "exception" /\ pc # "except") => stderrDiag
            /\ pc = "done" =>
                 (exitStatus = << 0 >> /\ termCalls = 1 /\ waitCalls = 1))
    /\ (exitPath \in MidSessionFaults) ~> (termCalls = 1 /\ waitCalls = 1)

\* C15 witness: the bridge returned after a failed transfer from the master
\* with bytes already read.
C15_Witness ==
    /\ pc = "done"
    /\ exitPath = "master_err"
    /\ outRead > Len(stdoutWritten)
    /\ termCalls = 1
    /\ waitCalls = 1

\* C16: while the proxy loop runs, the bridge's copy of the slave is closed
\* and the master is open.
C16_SlaveClosedInLoop ==
    pc \in LoopPcs => (slaveFd = "closed" /\ masterFd = "open")

\* C16 witness: the first poll is about to happen.
C16_Witness ==
    /\ pc = "select"
    /\ slaveFd = "closed"
    /\ r = {}
    /\ exitPath = "none"

\* C17: each source is read at most once per iteration and only if the
\* select of that iteration reported it; an iteration whose select reported
\* nothing moves no byte and goes back to the loop condition.
C17_ReadsOnlyWhenReady ==
    /\ [](/\ reads.stdin <= 1
          /\ reads.master <= 1
          /\ reads.stdin = 1 => "stdin" \in r
          /\ reads.master = 1 => "master" \in r)
    /\ [][/\ inRead' # inRead => (pc = "stdin" /\ "stdin" \in r)
          /\ outRead' # outRead => (pc = "master" /\ "master" \in r)
          /\ (pc \in { "stdin", "master" } /\ r = {}) =>
                 (ioVars' = ioVars /\ pc' \in { "stdin", "master", "loop" })
         ]_vars

\* C17 witness: a timed-out iteration, with the child alive and bytes
\* arrived on both sides since the poll.
C17_Witness ==
    /\ pc = "master"
    /\ r = {}
    /\ child = "running"
    /\ inRead < Len(inSupplied)

\* C18: when the liveness check has reclaimed the child's exit status, no
\* signal has been or is sent, terminate and wait both return; no signal is
\* ever sent to a reaped child.
C18_NoSignalAfterReap ==
    /\ [](exitPath = "child_dead" =>
            /\ child = "reaped"
            /\ sigSent = 0
            /\ pc = "done" => (termCalls = 1 /\ waitCalls = 1))
    /\ [][child = "reaped" => sigSent' = sigSent]_vars

\* C18 witness: the bridge returned after the liveness check ended the loop.
C18_Witness ==
    /\ pc = "done"
    /\ exitPath = "child_dead"
    /\ termCalls = 1
    /\ waitCalls = 1
    /\ sigSent = 0

\* C19: the loop is left only for the terminated positions, and once the
\* liveness check has found the child dead nothing more is read from the
\* master or written to stdout.
C19_NoDrain ==
    /\ [][(pc \in LoopPcs) => pc' \in (LoopPcs \cup Terminated)]_vars
    /\ [][(exitPath = "child_dead" \/ exitPath' = "child_dead") =>
              (outRead' = outRead /\ stdoutWritten' = stdoutWritten)]_vars

\* C19 witness: the bridge returned after the liveness check ended the
\* loop, with output of the child still unread in the master.
C19_Witness ==
    /\ pc = "done"
    /\ exitPath = "child_dead"
    /\ outRead < Len(ptyOut)

\* The lines taken from stdin so far that are not the exit sentinel.
TakenLines == { i \in 1..sPos : sLines[i] # "exit" }

\* C11: the first line printed is the ready handshake, and after it the
\* lines printed are one response per line taken before the exit sentinel,
\* in input order, each with the id of its line.
C11_OneResponsePerLine ==
    /\ sPc \in { "loop", "done", "crashed" } => (sOut # << >> /\ sOut[1] = ReadyLine)
    /\ sPc \in { "loop", "done", "crashed" } =>
        /\ Len(sOut) = 1 + Cardinality(TakenLines)
        /\ \A i \in 2..Len(sOut) :
               sOut[i].kind = "response" /\ sOut[i].id = i - 1

\* C12: only the exit sentinel or the end of the input ends the loop; every
\* failing request taken (no expression, an evaluation error, a JSON value
\* that is no object) has an error response with its id; nothing is printed
\* after the exit sentinel.
C12_ErrorsDoNotEndStream ==
    /\ sPc # "crashed"
    /\ sPc = "done" =>
           (sPos = Len(sLines) \/ (sPos > 0 /\ sLines[sPos] = "exit"))
    /\ \A i \in 1..sPos :
           sLines[i] \in { "noexpr", "bad", "nonobject" } =>
               \E j \in 1..Len(sOut) : sOut[j] = Response(i, TRUE)

====
